---- MODULE Spec2Model ----
(***************************************************************************)
(* A model of calculator.py: the operator tables BIN_OPS and UNARY_OPS,    *)
(* the EvalExpr visitor, eval_expr, the interactive loop repl and the      *)
(* one-shot entry point main.                                              *)
(*                                                                         *)
(* Source text is a sequence of tokens.  Numbers are exact: an int is n/1, *)
(* a float is a reduced fraction n/d (rounding of IEEE doubles is not      *)
(* modelled).  A result that is not a fraction (x ** 0.5, a complex        *)
(* number) keeps its type and drops its magnitude (d = 0).                 *)
(***************************************************************************)
EXTENDS Integers, Sequences, FiniteSets, TLC

\* ------------------------------------------------------------------ bounds

\* Largest number of syntax-tree nodes of an input expression.
MaxNodes == 5

\* Largest exponent magnitude and largest power the model computes.
MaxExp == 10

MaxMag == 100000

\* Largest operand magnitude of the table-function check.
MaxInt == 7

\* Largest number of lines the interactive loop reads.
MaxReads == 2

\* Largest number of program arguments of a one-shot invocation.
MaxArgs == 2

\* ------------------------------------------------------------------ values

None == [t |-> "None"]

Abs(x) == IF x < 0 THEN -x ELSE x

Sign(x) == IF x < 0 THEN -1 ELSE IF x = 0 THEN 0 ELSE 1

RECURSIVE GCD(_, _)
GCD(a, b) == IF b = 0 THEN a ELSE GCD(b, a % b)

\* Python values: int, bool (a subclass of int), float, complex, str.
PyInt(n) == [t |-> "int", n |-> n, d |-> 1]

PyBool(n) == [t |-> "bool", n |-> n, d |-> 1]

PyFloat(n, d) ==
    LET g == GCD(Abs(n), Abs(d))
    IN  [t |-> "float", n |-> Sign(d) * (n \div g), d |-> Abs(d) \div g]

\* A float or complex whose magnitude the model does not track.
Untracked(t) == [t |-> t, n |-> 0, d |-> 0]

Str == [t |-> "str", n |-> 0, d |-> 1]

IsTracked(v) == v.d # 0

IsZero(v) == IsTracked(v) /\ v.n = 0

\* isinstance(value, (int, float)): bool is a subclass of int.
IsInstanceIntFloat(v) == v.t \in {"int", "bool", "float"}

\* ------------------------------------------------------- operator tables

Ok(v) == [ok |-> TRUE, v |-> v]

Fault(type, msg) == [ok |-> FALSE, type |-> type, msg |-> msg]

\* C division of machine integers truncates toward zero.
TruncDiv(a, b) == Sign(a) * Sign(b) * (Abs(a) \div Abs(b))

\* Integer division that truncates toward zero, as C's does.
MutIntFloorDiv(a, b) == TruncDiv(a, b)

\* int.__floordiv__: the truncated quotient, lowered by one when the
\* remainder is non-zero and its sign differs from the divisor's.
IntFloorDiv(a, b) ==
    LET q == TruncDiv(a, b)
        m == a - q * b
    IN  IF m # 0 /\ ((b < 0) # (m < 0)) THEN q - 1 ELSE q

\* int.__mod__: the truncated remainder, shifted by the divisor when the
\* remainder is non-zero and its sign differs from the divisor's.
IntMod(a, b) ==
    LET m == a - TruncDiv(a, b) * b
    IN  IF m # 0 /\ ((b < 0) # (m < 0)) THEN m + b ELSE m

\* |a| ** b for b >= 0, stopping once it exceeds MaxMag.
RECURSIVE PowCap(_, _)
PowCap(a, b) ==
    IF b = 0 THEN 1
    ELSE LET p == PowCap(a, b - 1) IN IF p > MaxMag THEN p ELSE p * Abs(a)

RECURSIVE IntPow(_, _)
IntPow(a, b) == IF b = 0 THEN 1 ELSE a * IntPow(a, b - 1)

\* The type of an arithmetic result (numeric-tower promotion).
Promote(l, r) ==
    IF l.t = "complex" \/ r.t = "complex" THEN "complex"
    ELSE IF l.t = "float" \/ r.t = "float" THEN "float"
    ELSE "int"

Make(t, n, d) == IF t = "int" THEN PyInt(n \div d) ELSE PyFloat(n, d)

ZeroDivMsg(op, l, r) ==
    IF Promote(l, r) = "int"
    THEN (IF op = "Div" THEN "division by zero"
          ELSE IF op = "Mod" THEN "integer modulo by zero"
          ELSE "integer division or modulo by zero")
    ELSE (IF op = "Div" THEN "float division by zero"
          ELSE IF op = "Mod" THEN "float modulo"
          ELSE "float floor division by zero")

\* operator.add, operator.sub, operator.mul
Add(l, r) == Ok(Make(Promote(l, r), l.n * r.d + r.n * l.d, l.d * r.d))

Sub(l, r) == Ok(Make(Promote(l, r), l.n * r.d - r.n * l.d, l.d * r.d))

Mult(l, r) == Ok(Make(Promote(l, r), l.n * r.n, l.d * r.d))

\* operator.truediv: always a float.
TrueDiv(l, r) ==
    IF IsZero(r) THEN Fault("ZeroDivisionError", ZeroDivMsg("Div", l, r))
    ELSE Ok(PyFloat(l.n * r.d, l.d * r.n))

\* operator.floordiv
FloorDiv(l, r) ==
    IF IsZero(r) THEN Fault("ZeroDivisionError", ZeroDivMsg("FloorDiv", l, r))
    ELSE Ok(Make(Promote(l, r), IntFloorDiv(l.n * r.d, l.d * r.n), 1))

\* operator.mod: l - floor(l / r) * r
Mod(l, r) ==
    IF IsZero(r) THEN Fault("ZeroDivisionError", ZeroDivMsg("Mod", l, r))
    ELSE IF Promote(l, r) = "int" THEN Ok(PyInt(IntMod(l.n, r.n)))
    ELSE LET q == IntFloorDiv(l.n * r.d, l.d * r.n)
         IN  Ok(PyFloat(l.n * r.d - q * r.n * l.d, l.d * r.d))

\* A power that stays an int for a negative int exponent.
MutPow(l, r) ==
    IF r.d = 1 /\ r.n < 0 /\ l.n = 0
    THEN Fault("ZeroDivisionError", "0.0 cannot be raised to a negative power")
    ELSE IF r.d = 1 /\ r.n < 0 /\ Promote(l, r) = "int"
         THEN Ok(PyInt(0))
         ELSE IF r.d = 1 /\ r.n >= 0
              THEN Ok(Make(Promote(l, r), IntPow(l.n, r.n), IntPow(l.d, r.n)))
              ELSE Ok(Untracked("float"))

\* operator.pow
Pow(l, r) ==
    IF r.d = 1
    THEN \* an integral exponent
         IF r.n >= 0
         THEN Ok(Make(Promote(l, r), IntPow(l.n, r.n), IntPow(l.d, r.n)))
         ELSE IF l.n = 0
              THEN Fault("ZeroDivisionError",
                         "0.0 cannot be raised to a negative power")
              ELSE Ok(PyFloat(IntPow(l.d, -r.n), IntPow(l.n, -r.n)))
    ELSE \* a fractional exponent
         IF l.n = 0
         THEN (IF r.n > 0 THEN Ok(PyFloat(0, 1))
               ELSE Fault("ZeroDivisionError",
                          "0.0 cannot be raised to a negative power"))
         ELSE IF l.n < 0 THEN Ok(Untracked("complex"))
         ELSE Ok(Untracked("float"))

\* BIN_OPS: the allowed binary operators.
BinOpNames == {"Add", "Sub", "Mult", "Div", "FloorDiv", "Mod", "Pow"}

BIN_OPS(op, l, r) ==
    CASE op = "Add" -> Add(l, r)
      [] op = "Sub" -> Sub(l, r)
      [] op = "Mult" -> Mult(l, r)
      [] op = "Div" -> TrueDiv(l, r)
      [] op = "FloorDiv" -> FloorDiv(l, r)
      [] op = "Mod" -> Mod(l, r)
      [] op = "Pow" -> Pow(l, r)

\* UNARY_OPS: the allowed unary operators.
UnaryOpNames == {"UAdd", "USub"}

UNARY_OPS(op, v) ==
    IF ~IsTracked(v) THEN v
    ELSE IF op = "USub" THEN Make(Promote(v, v), -v.n, v.d)
    ELSE Make(Promote(v, v), v.n, v.d)

\* The operations the model computes: tracked operands, and powers within
\* MaxExp and MaxMag.
InModelRange(op, l, r) ==
    /\ IsTracked(l) /\ IsTracked(r)
    /\ op = "Pow" /\ r.d = 1 =>
          /\ Abs(r.n) <= MaxExp
          /\ PowCap(l.n, Abs(r.n)) <= MaxMag
          /\ PowCap(l.d, Abs(r.n)) <= MaxMag

\* ------------------------------------------------------------ syntax trees

\* The node classes of the ast module that the inputs of the model produce.
Expression(body) == [k |-> "Expression", body |-> body]

Constant(value) == [k |-> "Constant", value |-> value]

UnaryOp(op, operand) == [k |-> "UnaryOp", op |-> op, operand |-> operand]

BinOp(op, left, right) ==
    [k |-> "BinOp", op |-> op, left |-> left, right |-> right]

Name(id) == [k |-> "Name", id |-> id]

Compare(left, comparators) ==
    [k |-> "Compare", left |-> left, comparators |-> comparators]

\* ------------------------------------------------------------------ tokens

\* A token: an operator or parenthesis, a literal with its value, a name,
\* or a blank.
Op(s) == [c |-> "op", s |-> s, v |-> None]

Num(v) == [c |-> "const", s |-> "", v |-> v]

StrLit == [c |-> "const", s |-> "'a'", v |-> Str]

TrueLit == [c |-> "const", s |-> "True", v |-> PyBool(1)]

Id(s) == [c |-> "name", s |-> s, v |-> None]

Blank == [c |-> "blank", s |-> " ", v |-> None]

EndOfText == [c |-> "eof", s |-> "", v |-> None]

Ops(ss) == [i \in DOMAIN ss |-> Op(ss[i])]

UnaryToken(s) ==
    CASE s = "+" -> "UAdd"
      [] s = "-" -> "USub"
      [] s = "~" -> "Invert"

BinaryToken(s) ==
    CASE s = "+" -> "Add"
      [] s = "-" -> "Sub"
      [] s = "*" -> "Mult"
      [] s = "/" -> "Div"
      [] s = "//" -> "FloorDiv"
      [] s = "%" -> "Mod"
      [] s = "**" -> "Pow"
      [] s = "&" -> "BitAnd"

\* The left-associative binary levels of the grammar, loosest first:
\* and_expr, arith_expr, term.
LevelTokens(lvl) ==
    CASE lvl = 1 -> {"&"}
      [] lvl = 2 -> {"+", "-"}
      [] lvl = 3 -> {"*", "/", "//", "%"}

\* ------------------------------------------------------------------ parser

Parsed(node, pos) == [ok |-> TRUE, node |-> node, pos |-> pos]

NoParse == [ok |-> FALSE]

TokenAt(ts, i) == IF i <= Len(ts) THEN ts[i] ELSE EndOfText

IsOp(tok, ss) == tok.c = "op" /\ tok.s \in ss

RECURSIVE ParseComparison(_, _)
RECURSIVE ComparisonRest(_, _, _, _)
RECURSIVE ParseLevel(_, _, _)
RECURSIVE LevelRest(_, _, _, _)
RECURSIVE ParseFactor(_, _)
RECURSIVE ParsePower(_, _)
RECURSIVE ParseAtom(_, _)

\* atom: a literal, a name, or a parenthesised expression
ParseAtom(ts, i) ==
    LET tok == TokenAt(ts, i)
    IN  IF tok.c = "const" THEN Parsed(Constant(tok.v), i + 1)
        ELSE IF tok.c = "name" THEN Parsed(Name(tok.s), i + 1)
        ELSE IF IsOp(tok, {"("})
             THEN LET e == ParseComparison(ts, i + 1)
                  IN  IF e.ok /\ IsOp(TokenAt(ts, e.pos), {")"})
                      THEN Parsed(e.node, e.pos + 1)
                      ELSE NoParse
             ELSE NoParse

\* power: atom ['**' factor]
ParsePower(ts, i) ==
    LET a == ParseAtom(ts, i)
    IN  IF a.ok /\ IsOp(TokenAt(ts, a.pos), {"**"})
        THEN LET f == ParseFactor(ts, a.pos + 1)
             IN  IF f.ok THEN Parsed(BinOp("Pow", a.node, f.node), f.pos)
                 ELSE NoParse
        ELSE a

\* factor with the unary operator bound to the atom, tighter than '**'
MutParseFactor(ts, i) ==
    LET tok == TokenAt(ts, i)
    IN  IF IsOp(tok, {"+", "-", "~"})
        THEN LET a == ParseAtom(ts, i + 1)
             IN  IF ~a.ok THEN NoParse
                 ELSE IF IsOp(TokenAt(ts, a.pos), {"**"})
                 THEN LET f == ParseFactor(ts, a.pos + 1)
                      IN  IF f.ok
                          THEN Parsed(BinOp("Pow",
                                         UnaryOp(UnaryToken(tok.s), a.node),
                                         f.node), f.pos)
                          ELSE NoParse
                 ELSE Parsed(UnaryOp(UnaryToken(tok.s), a.node), a.pos)
        ELSE ParsePower(ts, i)

\* factor: ('+' | '-' | '~') factor | power
ParseFactor(ts, i) ==
    LET tok == TokenAt(ts, i)
    IN  IF IsOp(tok, {"+", "-", "~"})
        THEN LET f == ParseFactor(ts, i + 1)
             IN  IF f.ok THEN Parsed(UnaryOp(UnaryToken(tok.s), f.node), f.pos)
                 ELSE NoParse
        ELSE ParsePower(ts, i)

\* The operands of level lvl: the next tighter level, factor below term.
ParseOperand(ts, i, lvl) ==
    IF lvl = 3 THEN ParseFactor(ts, i) ELSE ParseLevel(ts, i, lvl + 1)

\* (op operand)*, grouping to the left
LevelRest(ts, left, pos, lvl) ==
    LET tok == TokenAt(ts, pos)
    IN  IF IsOp(tok, LevelTokens(lvl))
        THEN LET r == ParseOperand(ts, pos + 1, lvl)
             IN  IF r.ok
                 THEN LevelRest(ts, BinOp(BinaryToken(tok.s), left, r.node),
                                r.pos, lvl)
                 ELSE NoParse
        ELSE Parsed(left, pos)

ParseLevel(ts, i, lvl) ==
    LET l == ParseOperand(ts, i, lvl)
    IN  IF l.ok THEN LevelRest(ts, l.node, l.pos, lvl) ELSE NoParse

\* comparison: and_expr ('<' and_expr)*, one Compare node for the chain
ComparisonRest(ts, left, comparators, pos) ==
    IF IsOp(TokenAt(ts, pos), {"<"})
    THEN LET r == ParseLevel(ts, pos + 1, 1)
         IN  IF r.ok
             THEN ComparisonRest(ts, left, Append(comparators, r.node), r.pos)
             ELSE NoParse
    ELSE IF comparators = <<>> THEN Parsed(left, pos)
    ELSE Parsed(Compare(left, comparators), pos)

ParseComparison(ts, i) ==
    LET l == ParseLevel(ts, i, 1)
    IN  IF l.ok THEN ComparisonRest(ts, l.node, <<>>, l.pos) ELSE NoParse

\* The tokenizer drops blanks between tokens.
NoBlanks(ts) == SelectSeq(ts, LAMBDA tok : tok.c # "blank")

\* ast.parse(expr, mode="eval"): an Expression, or a SyntaxError
\* (IndentationError for a leading blank).
AstParse(ts) ==
    IF ts # <<>> /\ ts[1].c = "blank"
    THEN [ok |-> FALSE, msg |-> "unexpected indent"]
    ELSE LET toks == NoBlanks(ts)
             e == ParseComparison(toks, 1)
         IN  IF e.ok /\ e.pos = Len(toks) + 1
             THEN [ok |-> TRUE, node |-> Expression(e.node)]
             ELSE [ok |-> FALSE, msg |-> "invalid syntax"]

\* ------------------------------------------------------------------ inputs

ValueToken(v) ==
    IF v.t = "str" THEN StrLit ELSE IF v.t = "bool" THEN TrueLit ELSE Num(v)

OperatorToken(op) ==
    IF op \in {"UAdd", "USub", "Invert"}
    THEN Op(CHOOSE s \in {"+", "-", "~"} : UnaryToken(s) = op)
    ELSE Op(CHOOSE s \in {"+", "-", "*", "/", "//", "%", "**", "&"} :
                BinaryToken(s) = op)

RECURSIVE Unparse(_, _)
RECURSIVE UnparseAll(_, _)

\* The source text of a tree: every compound operand in parentheses
\* (parens = TRUE), or no parentheses at all.
Wrapped(node, parens) ==
    IF parens /\ node.k \notin {"Constant", "Name"}
    THEN <<Op("(")>> \o Unparse(node, parens) \o <<Op(")")>>
    ELSE Unparse(node, parens)

UnparseAll(nodes, parens) ==
    IF nodes = <<>> THEN <<>>
    ELSE <<Op("<")>> \o Wrapped(Head(nodes), parens)
             \o UnparseAll(Tail(nodes), parens)

Unparse(node, parens) ==
    CASE node.k = "Constant" -> <<ValueToken(node.value)>>
      [] node.k = "Name" -> <<Id(node.id)>>
      [] node.k = "UnaryOp" ->
            <<OperatorToken(node.op)>> \o Wrapped(node.operand, parens)
      [] node.k = "BinOp" ->
            Wrapped(node.left, parens) \o <<OperatorToken(node.op)>>
                \o Wrapped(node.right, parens)
      [] node.k = "Compare" ->
            Wrapped(node.left, parens) \o UnparseAll(node.comparators, parens)

Binary(op, l, r) == IF op = "Lt" THEN Compare(l, <<r>>) ELSE BinOp(op, l, r)

\* The trees of exactly n nodes over the given leaves and operators.
RECURSIVE TreesOf(_, _, _, _)
TreesOf(n, leaves, bins, uns) ==
    IF n = 1 THEN leaves
    ELSE {UnaryOp(op, t) : op \in uns, t \in TreesOf(n - 1, leaves, bins, uns)}
         \cup UNION {{Binary(op, l, r) :
                          op \in bins,
                          l \in TreesOf(i, leaves, bins, uns),
                          r \in TreesOf(n - 1 - i, leaves, bins, uns)} :
                     i \in 1 .. (n - 2)}

TreesUpTo(n, leaves, bins, uns) ==
    UNION {TreesOf(i, leaves, bins, uns) : i \in 1 .. n}

Ints(ns) == {Constant(PyInt(n)) : n \in ns}

\* Arithmetic over numeric literals, every allowed binary operator.
ArithmeticTrees ==
    TreesUpTo(MaxNodes, Ints({0, 2}) \cup {Constant(PyFloat(2, 1))},
              BinOpNames, {"USub"})

\* Expressions with constructs outside the arithmetic grammar.
ForeignTrees ==
    TreesUpTo(MaxNodes,
              Ints({0}) \cup {Constant(PyBool(1)), Constant(Str), Name("x")},
              {"Div", "BitAnd", "Lt"}, {"Invert"})

\* Texts without parentheses, to be grouped by the parser.
FlatTrees ==
    TreesUpTo(MaxNodes, Ints({2, 3, 4}), {"Add", "Mult", "Mod", "Pow"},
              UnaryOpNames)

\* A signed literal: -n is the unary minus of the literal n.
Signed(v) ==
    IF v.n < 0 THEN UnaryOp("USub", Constant([v EXCEPT !.n = -v.n]))
    ELSE Constant(v)

\* Operands of the table functions: ints, halves, and True.
Operands ==
    {PyInt(n) : n \in -MaxInt .. MaxInt}
        \cup {PyFloat(n, 2) : n \in {-3, -1, 1, 3}}
        \cup {PyBool(1)}

\* One binary operator between two signed literals.
OperatorTrees ==
    {BinOp(op, Signed(l), Signed(r)) : op \in BinOpNames, l, r \in Operands}

\* Texts that are not expressions.
Malformed ==
    {<<>>, <<Blank, Num(PyInt(2))>>, <<Num(PyInt(2)), Op("+")>>,
     <<Id("x"), Op("="), Num(PyInt(2))>>, <<Num(PyInt(2)), Num(PyInt(2))>>,
     <<Op("("), Num(PyInt(2))>>, <<Op("*"), Op("*")>>}

Texts ==
    {Unparse(t, TRUE) : t \in ArithmeticTrees \cup ForeignTrees \cup OperatorTrees}
        \cup {Unparse(t, FALSE) : t \in FlatTrees}
        \cup {<<Op("("), Num(PyInt(2)), Op("+"), Num(PyInt(3)), Op(")"),
                Op("*"), Num(PyInt(4))>>,
              <<Num(PyInt(7)), Op("+"), Blank, Num(PyInt(2)), Blank>>,
              <<Op("-"), Num(PyInt(7)), Op("%"), Num(PyInt(2))>>}
        \cup Malformed

\* ------------------------------------------------------------------- state

VARIABLES
    text,      \* eval_expr's argument expr
    pc,        \* eval_expr: "idle", "call", "visit", "returned", "raised"
    parsed,    \* the tree ast.parse returned
    stack,     \* the frames of the visit calls in progress, innermost last
    ret,       \* the value the innermost finished visit returned
    exc,       \* the exception in flight
    applied,   \* how many table functions have been called
    argv,      \* main's arguments, each a text
    mpc,       \* main and repl: "test", "main", "oneshot", "input",
               \* "evaluating", "exited"
    line,      \* the line input() returned last
    out,       \* what print has written
    status,    \* the exit status of the process
    reads,     \* how many lines input() has returned
    calls      \* how many times eval_expr has been called

vars ==
    <<text, pc, parsed, stack, ret, exc, applied,
      argv, mpc, line, out, status, reads, calls>>

\* The state of main and repl, which eval_expr does not touch.
program == <<argv, mpc, line, out, status, reads, calls>>

Frame(node) == [node |-> node, at |-> "enter", left |-> None]

ValueError(prefix, detail) ==
    [type |-> "ValueError", prefix |-> prefix, detail |-> detail]

Top == stack[Len(stack)]

Pop == SubSeq(stack, 1, Len(stack) - 1)

SetTop(frame) == [stack EXCEPT ![Len(stack)] = frame]

Running == pc = "visit" /\ exc = None /\ stack # <<>>

\* ---------------------------------------------------------------- eval_expr

\* eval_expr: parse the text, then visit the tree.
EvalExprParse ==
    /\ pc = "call"
    /\ LET r == AstParse(text)
       IN  IF r.ok
           THEN /\ parsed' = r.node
                /\ stack' = <<Frame(r.node)>>
                /\ pc' = "visit"
                /\ exc' = exc
           ELSE /\ exc' = ValueError("Syntax error", r.msg)
                /\ pc' = "raised"
                /\ UNCHANGED <<parsed, stack>>
    /\ UNCHANGED <<text, ret, applied>>
    /\ UNCHANGED program

\* EvalExpr.visit: an Expression is visited through its body.
VisitExpression ==
    /\ Running /\ Top.at = "enter" /\ Top.node.k = "Expression"
    /\ stack' = Append(SetTop([Top EXCEPT !.at = "body"]), Frame(Top.node.body))
    /\ UNCHANGED <<text, pc, parsed, ret, exc, applied>>
    /\ UNCHANGED program

VisitExpressionReturn ==
    /\ Running /\ Top.at = "body" /\ ret # None
    /\ stack' = Pop
    /\ UNCHANGED <<text, pc, parsed, ret, exc, applied>>
    /\ UNCHANGED program

\* visit_BinOp: left = self.visit(node.left)
VisitBinOpLeft ==
    /\ Running /\ Top.at = "enter" /\ Top.node.k = "BinOp"
    /\ stack' = Append(SetTop([Top EXCEPT !.at = "left"]), Frame(Top.node.left))
    /\ UNCHANGED <<text, pc, parsed, ret, exc, applied>>
    /\ UNCHANGED program

\* visit_BinOp: right = self.visit(node.right)
VisitBinOpRight ==
    /\ Running /\ Top.at = "left" /\ ret # None
    /\ stack' = Append(SetTop([Top EXCEPT !.at = "right", !.left = ret]),
                       Frame(Top.node.right))
    /\ ret' = None
    /\ UNCHANGED <<text, pc, parsed, exc, applied>>
    /\ UNCHANGED program

\* visit_BinOp without the try: the fault of the table function escapes.
MutBinOpOutcomeUncaught(op, left, right) ==
    IF op \in BinOpNames
    THEN LET r == BIN_OPS(op, left, right)
         IN  IF r.ok THEN r
             ELSE [ok |-> FALSE,
                   exc |-> [type |-> r.type, prefix |-> "", detail |-> r.msg]]
    ELSE [ok |-> FALSE, exc |-> ValueError("Unsupported binary operator", op)]

\* visit_BinOp with the operands handed over in the wrong order.
MutBinOpOutcomeSwapped(op, left, right) ==
    IF op \in BinOpNames
    THEN LET r == BIN_OPS(op, right, left)
         IN  IF r.ok THEN r
             ELSE [ok |-> FALSE,
                   exc |-> ValueError("Error in binary operation", r.msg)]
    ELSE [ok |-> FALSE, exc |-> ValueError("Unsupported binary operator", op)]

\* visit_BinOp reporting a missing operator as an unsupported expression.
MutBinOpOutcomeGeneric(op, left, right) ==
    IF op \in BinOpNames
    THEN LET r == BIN_OPS(op, left, right)
         IN  IF r.ok THEN r
             ELSE [ok |-> FALSE,
                   exc |-> ValueError("Error in binary operation", r.msg)]
    ELSE [ok |-> FALSE, exc |-> ValueError("Unsupported expression", "BinOp")]

\* What applying a binary node to its operand values does: a value, or
\* the ValueError raised.
BinOpOutcome(op, left, right) ==
    IF op \in BinOpNames
    THEN LET r == BIN_OPS(op, left, right)
         IN  IF r.ok THEN r
             ELSE [ok |-> FALSE,
                   exc |-> ValueError("Error in binary operation", r.msg)]
    ELSE [ok |-> FALSE, exc |-> ValueError("Unsupported binary operator", op)]

\* visit_BinOp: look the operator up and apply it.
VisitBinOpApply ==
    /\ Running /\ Top.at = "right" /\ ret # None
    /\ Top.node.op \in BinOpNames => InModelRange(Top.node.op, Top.left, ret)
    /\ LET r == BinOpOutcome(Top.node.op, Top.left, ret)
       IN  IF r.ok
           THEN /\ stack' = Pop
                /\ ret' = r.v
                /\ exc' = exc
           ELSE /\ exc' = r.exc
                /\ ret' = None
                /\ stack' = stack
    /\ applied' = IF Top.node.op \in BinOpNames THEN applied + 1 ELSE applied
    /\ UNCHANGED <<text, pc, parsed>>
    /\ UNCHANGED program

\* visit_UnaryOp: operand = self.visit(node.operand)
VisitUnaryOpOperand ==
    /\ Running /\ Top.at = "enter" /\ Top.node.k = "UnaryOp"
    /\ stack' = Append(SetTop([Top EXCEPT !.at = "operand"]),
                       Frame(Top.node.operand))
    /\ UNCHANGED <<text, pc, parsed, ret, exc, applied>>
    /\ UNCHANGED program

\* visit_UnaryOp: look the operator up and apply it.
VisitUnaryOpApply ==
    /\ Running /\ Top.at = "operand" /\ ret # None
    /\ IF Top.node.op \in UnaryOpNames
       THEN /\ stack' = Pop
            /\ ret' = UNARY_OPS(Top.node.op, ret)
            /\ exc' = exc
            /\ applied' = applied + 1
       ELSE /\ exc' = ValueError("Unsupported unary operator", Top.node.op)
            /\ ret' = None
            /\ UNCHANGED <<stack, applied>>
    /\ UNCHANGED <<text, pc, parsed>>
    /\ UNCHANGED program

\* visit_Constant
VisitConstant ==
    /\ Running /\ Top.at = "enter" /\ Top.node.k = "Constant"
    /\ IF IsInstanceIntFloat(Top.node.value)
       THEN /\ stack' = Pop
            /\ ret' = Top.node.value
            /\ exc' = exc
       ELSE /\ exc' = ValueError("Only numeric constants are allowed", "")
            /\ UNCHANGED <<stack, ret>>
    /\ UNCHANGED <<text, pc, parsed, applied>>
    /\ UNCHANGED program

\* NodeVisitor's own generic_visit, which raises nothing and returns None.
MutGenericVisit ==
    /\ Running /\ Top.at = "enter"
    /\ Top.node.k \notin {"Expression", "BinOp", "UnaryOp", "Constant"}
    /\ stack' = Pop
    /\ ret' = [t |-> "NoneType", n |-> 0, d |-> 0]
    /\ UNCHANGED <<text, pc, parsed, exc, applied>>
    /\ UNCHANGED program

\* generic_visit: every node class without a visit_ method.
GenericVisit ==
    /\ Running /\ Top.at = "enter"
    /\ Top.node.k \notin {"Expression", "BinOp", "UnaryOp", "Constant"}
    /\ exc' = ValueError("Unsupported expression", Top.node.k)
    /\ UNCHANGED <<text, pc, parsed, stack, ret, applied>>
    /\ UNCHANGED program

\* An exception leaves the visit call it was raised in: no visit call has
\* a handler around its recursive calls.
Propagate ==
    /\ pc = "visit" /\ exc # None /\ stack # <<>>
    /\ stack' = Pop
    /\ UNCHANGED <<text, pc, parsed, ret, exc, applied>>
    /\ UNCHANGED program

\* eval_expr ends with the exception of the visit.
EvalExprRaise ==
    /\ pc = "visit" /\ exc # None /\ stack = <<>>
    /\ pc' = "raised"
    /\ UNCHANGED <<text, parsed, stack, ret, exc, applied>>
    /\ UNCHANGED program

\* eval_expr returns what the visit of the tree returned.
EvalExprReturn ==
    /\ pc = "visit" /\ exc = None /\ stack = <<>>
    /\ pc' = "returned"
    /\ UNCHANGED <<text, parsed, stack, ret, exc, applied>>
    /\ UNCHANGED program

Evaluate ==
    \/ EvalExprParse
    \/ VisitExpression
    \/ VisitExpressionReturn
    \/ VisitBinOpLeft
    \/ VisitBinOpRight
    \/ VisitBinOpApply
    \/ VisitUnaryOpOperand
    \/ VisitUnaryOpApply
    \/ VisitConstant
    \/ GenericVisit
    \/ Propagate
    \/ EvalExprRaise
    \/ EvalExprReturn

\* --------------------------------------------------------------- main, repl

Printed(kind, v, msg, detail) ==
    [kind |-> kind, v |-> v, msg |-> msg, detail |-> detail]

\* print(result)
ValueLine(v) == Printed("value", v, "", "")

\* print(f"Error: {e}")
ErrorLine(e) == Printed("error", None, e.prefix, e.detail)

Banner == Printed("banner", None, "", "")

Newline == Printed("newline", None, "", "")

\* str.strip(): drop the leading and the trailing blanks.
RECURSIVE LStrip(_)
LStrip(s) == IF s # <<>> /\ Head(s).c = "blank" THEN LStrip(Tail(s)) ELSE s

RECURSIVE RStrip(_)
RStrip(s) ==
    IF s # <<>> /\ s[Len(s)].c = "blank"
    THEN RStrip(SubSeq(s, 1, Len(s) - 1))
    ELSE s

Strip(s) == RStrip(LStrip(s))

\* str.lower()
LowerCase(str) ==
    CASE str = "QUIT" -> "quit"
      [] str = "Exit" -> "exit"
      [] str = "True" -> "true"
      [] OTHER -> str

Lower(s) == [i \in DOMAIN s |-> [s[i] EXCEPT !.s = LowerCase(@)]]

\* s.lower() in ("quit", "exit")
IsQuit(s) == Lower(s) \in {<<Id("quit")>>, <<Id("exit")>>}

\* " ".join(argv)
RECURSIVE Join(_)
Join(args) ==
    IF Len(args) = 1 THEN args[1]
    ELSE args[1] \o <<Blank>> \o Join(Tail(args))

\* The locals of a finished eval_expr call are gone.
Forget ==
    /\ pc' = "idle"
    /\ parsed' = None
    /\ stack' = <<>>
    /\ ret' = None
    /\ exc' = None
    /\ applied' = 0

Call(expr) ==
    /\ text' = expr
    /\ pc' = "call"
    /\ calls' = calls + 1
    /\ UNCHANGED <<parsed, stack, ret, exc, applied>>

\* main: no arguments, so repl(), which prints its banner.
MainRepl ==
    /\ mpc = "main" /\ argv = <<>>
    /\ out' = Append(out, Banner)
    /\ mpc' = "input"
    /\ UNCHANGED <<text, pc, parsed, stack, ret, exc, applied>>
    /\ UNCHANGED <<argv, line, status, reads, calls>>

\* main: join the arguments and call eval_expr.
MainEval ==
    /\ mpc = "main" /\ argv # <<>>
    /\ Call(Join(argv))
    /\ mpc' = "oneshot"
    /\ UNCHANGED <<argv, line, out, status, reads>>

\* main: print(res), and the process ends normally.
MainPrint ==
    /\ mpc = "oneshot" /\ pc = "returned"
    /\ out' = Append(out, ValueLine(ret))
    /\ mpc' = "exited"
    /\ status' = 0
    /\ Forget
    /\ UNCHANGED <<text, argv, line, reads, calls>>

\* main printing the error without sys.exit(2).
MutMainError ==
    /\ mpc = "oneshot" /\ pc = "raised"
    /\ out' = Append(out, ErrorLine(exc))
    /\ mpc' = "exited"
    /\ status' = 0
    /\ Forget
    /\ UNCHANGED <<text, argv, line, reads, calls>>

\* main: except Exception: print the error, sys.exit(2).
MainError ==
    /\ mpc = "oneshot" /\ pc = "raised"
    /\ out' = Append(out, ErrorLine(exc))
    /\ mpc' = "exited"
    /\ status' = 2
    /\ Forget
    /\ UNCHANGED <<text, argv, line, reads, calls>>

\* The lines the user types.
Lines ==
    {<<>>, <<Blank>>, <<Blank, Blank>>,
     <<Id("quit")>>, <<Id("QUIT")>>, <<Blank, Id("Exit"), Blank>>,
     <<Id("quit"), Id("quit")>>, <<Id("x")>>,
     <<Num(PyInt(2)), Op("+"), Num(PyInt(2))>>,
     <<Blank, Num(PyInt(2)), Op("/"), Num(PyInt(0))>>,
     <<Op("-"), Num(PyInt(2)), Blank>>,
     <<Num(PyInt(2)), Op("+")>>,
     <<Op("~"), Num(PyInt(2))>>,
     <<Num(PyInt(2)), Op("&"), Num(PyInt(2))>>,
     <<StrLit>>}

\* The arguments of a one-shot invocation.
Args ==
    {<<>>, <<Num(PyInt(2))>>, <<Op("*")>>, <<Op("-")>>,
     <<Op("+"), Num(PyInt(2))>>, <<Blank, Num(PyInt(2))>>,
     <<Num(PyInt(2)), Op("/"), Num(PyInt(0))>>, <<Id("x")>>}

Argvs == UNION {[1 .. n -> Args] : n \in 0 .. MaxArgs}

\* repl: input() returns a line that is blank: continue.
ReplEmpty ==
    /\ mpc = "input" /\ reads < MaxReads
    /\ \E l \in Lines :
          /\ Strip(l) = <<>>
          /\ line' = l
    /\ reads' = reads + 1
    /\ UNCHANGED <<text, pc, parsed, stack, ret, exc, applied>>
    /\ UNCHANGED <<argv, mpc, out, status, calls>>

\* repl: the line is quit or exit: break, and main returns.
ReplQuit ==
    /\ mpc = "input" /\ reads < MaxReads
    /\ \E l \in Lines :
          /\ Strip(l) # <<>>
          /\ IsQuit(Strip(l))
          /\ line' = l
    /\ reads' = reads + 1
    /\ mpc' = "exited"
    /\ status' = 0
    /\ UNCHANGED <<text, pc, parsed, stack, ret, exc, applied>>
    /\ UNCHANGED <<argv, out, calls>>

\* repl: any other line is handed to eval_expr.
ReplEval ==
    /\ mpc = "input" /\ reads < MaxReads
    /\ \E l \in Lines :
          /\ Strip(l) # <<>>
          /\ ~IsQuit(Strip(l))
          /\ line' = l
          /\ Call(Strip(l))
    /\ reads' = reads + 1
    /\ mpc' = "evaluating"
    /\ UNCHANGED <<argv, out, status>>

\* repl: input() raises EOFError or KeyboardInterrupt: print(), break.
ReplInterrupt ==
    /\ mpc = "input"
    /\ out' = Append(out, Newline)
    /\ mpc' = "exited"
    /\ status' = 0
    /\ UNCHANGED <<text, pc, parsed, stack, ret, exc, applied>>
    /\ UNCHANGED <<argv, line, reads, calls>>

\* repl: print(result)
ReplPrint ==
    /\ mpc = "evaluating" /\ pc = "returned"
    /\ out' = Append(out, ValueLine(ret))
    /\ mpc' = "input"
    /\ Forget
    /\ UNCHANGED <<text, argv, line, status, reads, calls>>

\* repl leaving the loop after printing the error.
MutReplError ==
    /\ mpc = "evaluating" /\ pc = "raised"
    /\ out' = Append(out, ErrorLine(exc))
    /\ mpc' = "exited"
    /\ status' = 0
    /\ Forget
    /\ UNCHANGED <<text, argv, line, reads, calls>>

\* repl: except Exception: print the error, and the loop goes on.
ReplError ==
    /\ mpc = "evaluating" /\ pc = "raised"
    /\ out' = Append(out, ErrorLine(exc))
    /\ mpc' = "input"
    /\ Forget
    /\ UNCHANGED <<text, argv, line, status, reads, calls>>

\* ---------------------------------------------------------- specifications

\* eval_expr called on one text.
Init ==
    /\ text \in Texts
    /\ pc = "call"
    /\ parsed = None
    /\ stack = <<>>
    /\ ret = None
    /\ exc = None
    /\ applied = 0
    /\ argv = <<>>
    /\ mpc = "test"
    /\ line = <<>>
    /\ out = <<>>
    /\ status = None
    /\ reads = 0
    /\ calls = 1

Next == Evaluate

Spec == Init /\ [][Next]_vars

\* The program started with any arguments.
InitMain ==
    /\ text = <<>>
    /\ pc = "idle"
    /\ parsed = None
    /\ stack = <<>>
    /\ ret = None
    /\ exc = None
    /\ applied = 0
    /\ argv \in Argvs
    /\ mpc = "main"
    /\ line = <<>>
    /\ out = <<>>
    /\ status = None
    /\ reads = 0
    /\ calls = 0

NextMain ==
    \/ MainRepl
    \/ MainEval
    \/ MainPrint
    \/ MainError
    \/ ReplEmpty
    \/ ReplQuit
    \/ ReplEval
    \/ ReplInterrupt
    \/ ReplPrint
    \/ ReplError
    \/ EvalExprParse
    \/ VisitExpression
    \/ VisitExpressionReturn
    \/ VisitBinOpLeft
    \/ VisitBinOpRight
    \/ VisitBinOpApply
    \/ VisitUnaryOpOperand
    \/ VisitUnaryOpApply
    \/ VisitConstant
    \/ GenericVisit
    \/ Propagate
    \/ EvalExprRaise
    \/ EvalExprReturn

SpecMain == InitMain /\ [][NextMain]_vars

\* ------------------------------------------------------------- properties

Final == pc \in {"returned", "raised"}

Err(e) == [ok |-> FALSE, exc |-> e]

\* The reference evaluation of a tree: post-order, operands left to right,
\* the first failure ends it.
RECURSIVE RefVisit(_)
RefVisit(node) ==
    CASE node.k = "Constant" ->
            IF node.value.t \in {"int", "float", "bool"} THEN Ok(node.value)
            ELSE Err(ValueError("Only numeric constants are allowed", ""))
      [] node.k = "UnaryOp" ->
            LET o == RefVisit(node.operand)
            IN  IF ~o.ok THEN o
                ELSE IF node.op = "UAdd" THEN Ok(Make(Promote(o.v, o.v), o.v.n, o.v.d))
                ELSE IF node.op = "USub" THEN Ok(Make(Promote(o.v, o.v), -o.v.n, o.v.d))
                ELSE Err(ValueError("Unsupported unary operator", node.op))
      [] node.k = "BinOp" ->
            LET l == RefVisit(node.left)
                r == RefVisit(node.right)
            IN  IF ~l.ok THEN l
                ELSE IF ~r.ok THEN r
                ELSE IF node.op \notin BinOpNames
                THEN Err(ValueError("Unsupported binary operator", node.op))
                ELSE LET f == BIN_OPS(node.op, l.v, r.v)
                     IN  IF f.ok THEN f
                         ELSE Err(ValueError("Error in binary operation", f.msg))
      [] OTHER -> Err(ValueError("Unsupported expression", node.k))

\* A tree of numeric literals, unary Plus/Minus and the seven binary operators.
RECURSIVE Arithmetic(_)
Arithmetic(node) ==
    CASE node.k = "Constant" -> node.value.t \in {"int", "float"}
      [] node.k = "UnaryOp" ->
            node.op \in {"UAdd", "USub"} /\ Arithmetic(node.operand)
      [] node.k = "BinOp" ->
            /\ node.op \in {"Add", "Sub", "Mult", "Div", "FloorDiv", "Mod", "Pow"}
            /\ Arithmetic(node.left)
            /\ Arithmetic(node.right)
      [] OTHER -> FALSE

RECURSIVE OperatorCount(_)
OperatorCount(node) ==
    CASE node.k = "UnaryOp" -> 1 + OperatorCount(node.operand)
      [] node.k = "BinOp" ->
            1 + OperatorCount(node.left) + OperatorCount(node.right)
      [] OTHER -> 0

\* The visit is waiting on an operation outside the model's range.
OutOfRange ==
    /\ Running /\ Top.at = "right" /\ ret # None
    /\ Top.node.op \in BinOpNames
    /\ ~InModelRange(Top.node.op, Top.left, ret)

\* C1: for a tree of numeric literals, unary Plus/Minus and the seven binary
\* operators whose operations do not fault, eval_expr ends by returning the
\* value of the reference post-order evaluation, having applied every
\* operator of the tree once; a visit in progress always has a next step.
C1_PostOrderValue ==
    /\ (Final /\ parsed # None /\ Arithmetic(parsed.body)
            /\ RefVisit(parsed.body).ok) =>
          /\ pc = "returned"
          /\ ret = RefVisit(parsed.body).v
          /\ applied = OperatorCount(parsed.body)
    /\ pc = "visit" =>
          \/ ENABLED VisitExpression \/ ENABLED VisitExpressionReturn
          \/ ENABLED VisitBinOpLeft \/ ENABLED VisitBinOpRight
          \/ ENABLED VisitBinOpApply
          \/ ENABLED VisitUnaryOpOperand \/ ENABLED VisitUnaryOpApply
          \/ ENABLED VisitConstant \/ ENABLED GenericVisit
          \/ ENABLED Propagate \/ ENABLED EvalExprRaise
          \/ ENABLED EvalExprReturn
          \/ OutOfRange

\* A nested arithmetic tree has been evaluated to a float.
C1_Witness ==
    /\ pc = "returned" /\ Arithmetic(parsed.body)
    /\ parsed.body.k = "BinOp" /\ parsed.body.left.k = "BinOp"
    /\ parsed.body.right.k = "Constant"
    /\ ret = PyFloat(1, 2) /\ applied = 2

\* The constructs outside the arithmetic grammar that a text shows: an
\* identifier, a comparison, an assignment, a non-numeric literal.
ForeignToken(tok, types) ==
    \/ tok.c = "name"
    \/ IsOp(tok, {"<", "="})
    \/ tok.c = "const" /\ tok.v.t \in types

HasForeign(ts, types) == \E i \in DOMAIN ts : ForeignToken(ts[i], types)

C3_NonNumericConstantRejected ==
    (Final /\ \E i \in DOMAIN text :
                  text[i].c = "const" /\ text[i].v.t \notin {"int", "float"}) =>
        pc = "raised"

\* The table function of the binary node on top is about to fault.
AboutToFault ==
    /\ Running /\ Top.at = "right" /\ ret # None
    /\ Top.node.op \in BinOpNames
    /\ InModelRange(Top.node.op, Top.left, ret)
    /\ ~BIN_OPS(Top.node.op, Top.left, ret).ok

\* C4: a fault of a table function becomes the ValueError "Error in binary
\* operation" with the cause's message; the exception then leaves every
\* frame unchanged and ends eval_expr, which never also holds a value.
C4_FaultPropagates ==
    /\ [](exc # None => ret = None)
    /\ [](pc = "raised" => exc # None /\ exc.type = "ValueError")
    /\ [][/\ AboutToFault =>
               exc' = ValueError("Error in binary operation",
                                 BIN_OPS(Top.node.op, Top.left, ret).msg)
          /\ (pc = "visit" /\ exc # None) =>
               /\ exc' = exc
               /\ pc' = (IF stack = <<>> THEN "raised" ELSE "visit")
               /\ stack # <<>> => stack' = Pop]_vars

\* A division by zero two levels down has ended the call.
C4_Witness ==
    /\ pc = "raised" /\ exc = ValueError("Error in binary operation",
                                         "division by zero")
    /\ parsed.body.k = "BinOp" /\ parsed.body.op = "Add"
    /\ parsed.body.left.k = "BinOp" /\ parsed.body.left.op = "Div"

\* A signed int literal and its value.
IsIntLiteral(node) ==
    \/ node.k = "Constant" /\ node.value.t = "int"
    \/ /\ node.k = "UnaryOp" /\ node.op = "USub"
       /\ node.operand.k = "Constant" /\ node.operand.value.t = "int"

LiteralValue(node) ==
    IF node.k = "Constant" THEN node.value
    ELSE [node.operand.value EXCEPT !.n = -@]

IsLiteral(node) ==
    \/ node.k = "Constant"
    \/ node.k = "UnaryOp" /\ node.op = "USub" /\ node.operand.k = "Constant"

\* q is the floor of a / b.
IsFloor(q, a, b) ==
    IF b > 0 THEN q * b <= a /\ a < (q + 1) * b
    ELSE q * b >= a /\ a > (q + 1) * b

\* The text is one binary operator between two int literals, b non-zero.
IntOperation(op) ==
    /\ Final /\ parsed # None
    /\ parsed.body.k = "BinOp" /\ parsed.body.op = op
    /\ IsIntLiteral(parsed.body.left) /\ IsIntLiteral(parsed.body.right)
    /\ LiteralValue(parsed.body.right).n # 0

\* C5: for ints a and b # 0, a // b is the floor of a / b, and a % b is zero
\* or has the sign of b, is smaller than b in magnitude, and makes
\* floor(a / b) * b + a % b = a; "-7 % 2" is 1.
C5_FloorDivMod ==
    LET a == LiteralValue(parsed.body.left).n
        b == LiteralValue(parsed.body.right).n
    IN  /\ IntOperation("FloorDiv") =>
              /\ pc = "returned" /\ ret.t = "int"
              /\ IsFloor(ret.n, a, b)
        /\ IntOperation("Mod") =>
              /\ pc = "returned" /\ ret.t = "int"
              /\ ret.n = 0 \/ Sign(ret.n) = Sign(b)
              /\ Abs(ret.n) < Abs(b)
              /\ \E q \in -Abs(a) - 1 .. Abs(a) + 1 :
                    IsFloor(q, a, b) /\ q * b + ret.n = a
        /\ (Final /\ text = <<Op("-"), Num(PyInt(7)), Op("%"), Num(PyInt(2))>>)
              => (pc = "returned" /\ ret = PyInt(1))

\* -7 // 2 has been evaluated to -4.
C5_Witness ==
    /\ IntOperation("FloorDiv")
    /\ LiteralValue(parsed.body.left).n = -7
    /\ LiteralValue(parsed.body.right).n = 2
    /\ ret = PyInt(-4)

\* The text is one binary operator between two literals, and has a value.
LiteralOperation ==
    /\ pc = "returned"
    /\ parsed.body.k = "BinOp"
    /\ IsLiteral(parsed.body.left) /\ IsLiteral(parsed.body.right)

Precedence(node) ==
    CASE node.k = "BinOp" /\ node.op \in {"Add", "Sub"} -> 1
      [] node.k = "BinOp" /\ node.op \in {"Mult", "Div", "FloorDiv", "Mod"} -> 2
      [] node.k = "UnaryOp" -> 3
      [] node.k = "BinOp" /\ node.op = "Pow" -> 4
      [] OTHER -> 5

\* The grouping a text without parentheses must get: a left-associative
\* operator has nothing looser on its left and only tighter on its right;
\* a unary operator has nothing looser than itself below it; '**' has an
\* atom as base and nothing looser than a unary operator as exponent.
RECURSIVE GroupedByPrecedence(_)
GroupedByPrecedence(node) ==
    CASE node.k = "BinOp" /\ node.op = "Pow" ->
            /\ Precedence(node.left) = 5
            /\ Precedence(node.right) >= 3
            /\ GroupedByPrecedence(node.left)
            /\ GroupedByPrecedence(node.right)
      [] node.k = "BinOp" /\ node.op # "Pow" ->
            /\ Precedence(node.left) >= Precedence(node)
            /\ Precedence(node.right) > Precedence(node)
            /\ GroupedByPrecedence(node.left)
            /\ GroupedByPrecedence(node.right)
      [] node.k = "UnaryOp" ->
            Precedence(node.operand) >= 3 /\ GroupedByPrecedence(node.operand)
      [] OTHER -> TRUE

\* A text of numbers and arithmetic operators, without parentheses.
Unparenthesised(ts) ==
    \A i \in DOMAIN ts :
        \/ ts[i].c = "blank"
        \/ ts[i].c = "const" /\ ts[i].v.t \in {"int", "float"}
        \/ IsOp(ts[i], {"+", "-", "*", "/", "//", "%", "**"})

ValueOf(ts, v) == (text = ts /\ Final) => (pc = "returned" /\ ret = v)

\* C7: the tree of an unparenthesised text keeps the order of the tokens and
\* groups them by precedence (additive, multiplicative, unary, '**', with
\* '**' grouping to the right); 2 + 3 * 4 = 14, (2 + 3) * 4 = 20,
\* 2 ** 3 ** 2 = 512, -2 ** 2 = -4.
C7_Precedence ==
    /\ (parsed # None /\ Unparenthesised(text)) =>
          /\ Unparse(parsed.body, FALSE) = NoBlanks(text)
          /\ GroupedByPrecedence(parsed.body)
    /\ ValueOf(<<Num(PyInt(2)), Op("+"), Num(PyInt(3)), Op("*"), Num(PyInt(4))>>,
               PyInt(14))
    /\ ValueOf(<<Op("("), Num(PyInt(2)), Op("+"), Num(PyInt(3)), Op(")"),
                 Op("*"), Num(PyInt(4))>>, PyInt(20))
    /\ ValueOf(<<Num(PyInt(2)), Op("**"), Num(PyInt(3)), Op("**"), Num(PyInt(2))>>,
               PyInt(512))
    /\ ValueOf(<<Op("-"), Num(PyInt(2)), Op("**"), Num(PyInt(2))>>, PyInt(-4))

\* -2 ** 2 has been evaluated to -4.
C7_Witness ==
    /\ text = <<Op("-"), Num(PyInt(2)), Op("**"), Num(PyInt(2))>>
    /\ pc = "returned" /\ ret = PyInt(-4)
    /\ parsed.body.k = "UnaryOp" /\ parsed.body.operand.k = "BinOp"

\* A step of repl in which input() returned a line.
ReadStep == mpc = "input" /\ reads' = reads + 1

\* C8: a blank line causes no evaluation and no output; quit or exit in any
\* letter case ends the loop; any other line is evaluated once and prints
\* one line, the value or the error; an error never ends the loop.
C8_ReplLoop ==
    /\ [](mpc \in {"input", "evaluating"} =>
            Len(out) = 1 + calls - (IF mpc = "evaluating" THEN 1 ELSE 0))
    /\ [][/\ (ReadStep /\ Strip(line') = <<>>) =>
               (mpc' = "input" /\ out' = out /\ calls' = calls /\ pc' = "idle")
          /\ (ReadStep /\ Strip(line') # <<>> /\ IsQuit(Strip(line'))) =>
               (mpc' = "exited" /\ out' = out /\ calls' = calls)
          /\ (ReadStep /\ Strip(line') # <<>> /\ ~IsQuit(Strip(line'))) =>
               /\ mpc' = "evaluating" /\ calls' = calls + 1
               /\ text' = Strip(line') /\ pc' = "call" /\ out' = out
          /\ (mpc = "evaluating" /\ pc \in {"call", "visit"}) =>
               (mpc' = "evaluating" /\ out' = out /\ calls' = calls)
          /\ (mpc = "evaluating" /\ pc = "returned") =>
               (mpc' = "input" /\ out' = Append(out, ValueLine(ret)))
          /\ (mpc = "evaluating" /\ pc = "raised") =>
               (mpc' = "input" /\ out' = Append(out, ErrorLine(exc)))]_vars

\* After an error was printed the loop has read another line and printed
\* its value.
C8_Witness ==
    /\ mpc = "input" /\ reads = 2 /\ Len(out) = 3
    /\ out[2].kind = "error" /\ out[3].kind = "value"

\* The arguments with one blank between neighbours.
RECURSIVE Spaced(_, _)
Spaced(args, n) ==
    IF n = 0 THEN <<>>
    ELSE IF n = 1 THEN args[1]
    ELSE Spaced(args, n - 1) \o <<Blank>> \o args[n]

\* C9: a one-shot invocation evaluates its arguments, joined with single
\* blanks, exactly once, and then either has printed the result alone and
\* ended normally, or has printed an error alone and ended with status 2.
C9_OneShot ==
    /\ (argv # <<>> /\ mpc # "main") =>
          (text = Spaced(argv, Len(argv)) /\ calls = 1 /\ reads = 0)
    /\ (argv # <<>> /\ mpc = "oneshot") => (out = <<>> /\ status = None)
    /\ (argv # <<>> /\ mpc = "exited") =>
          /\ Len(out) = 1
          /\ \/ out[1].kind = "value" /\ status = 0
             \/ out[1].kind = "error" /\ status = 2
          /\ out[1].kind = "value" <=> AstParse(text).ok /\ RefVisit(AstParse(text).node.body).ok

\* Two arguments were joined, evaluation failed, and the process ended
\* with status 2.
C9_Witness ==
    /\ mpc = "exited" /\ Len(argv) = 2 /\ status = 2
    /\ out[1].kind = "error" /\ out[1].msg = "Error in binary operation"

\* The node that eval_expr was given is a unary or binary node whose
\* operator is in no table.
MissingOperator ==
    /\ parsed # None
    /\ \/ parsed.body.k = "BinOp" /\ parsed.body.op \notin BinOpNames
       \/ parsed.body.k = "UnaryOp" /\ parsed.body.op \notin UnaryOpNames

MissingOperatorError ==
    ValueError(IF parsed.body.k = "BinOp" THEN "Unsupported binary operator"
               ELSE "Unsupported unary operator", parsed.body.op)

\* C10 as stated: a node with an operator in no table fails with
\* UnsupportedOperator whatever its operands are, and a node of another
\* kind fails with UnsupportedNode.
C10_UnsupportedWhateverOperands ==
    /\ (Final /\ MissingOperator) =>
          (pc = "raised" /\ exc = MissingOperatorError)
    /\ (Final /\ parsed # None
            /\ parsed.body.k \notin {"Constant", "UnaryOp", "BinOp"}) =>
          (pc = "raised" /\ exc = ValueError("Unsupported expression",
                                             parsed.body.k))

\* The operands of the node that eval_expr was given evaluate without error.
OperandsEvaluate ==
    IF parsed.body.k = "BinOp"
    THEN RefVisit(parsed.body.left).ok /\ RefVisit(parsed.body.right).ok
    ELSE RefVisit(parsed.body.operand).ok

\* C10 amended: a node with an operator in no table fails with
\* UnsupportedOperator naming the operator once its operands have been
\* evaluated without error, and with the first operand error otherwise; a
\* node of another kind fails with UnsupportedNode when it is visited.
C10_UnsupportedAfterOperands ==
    /\ [](/\ (Final /\ MissingOperator) =>
               /\ pc = "raised"
               /\ exc = (IF OperandsEvaluate THEN MissingOperatorError
                         ELSE RefVisit(parsed.body).exc)
          /\ (Final /\ parsed # None
                  /\ parsed.body.k \notin {"Constant", "UnaryOp", "BinOp"}) =>
               (pc = "raised" /\ exc = ValueError("Unsupported expression",
                                                  parsed.body.k)))
    /\ [][/\ (Running /\ Top.at = "right" /\ ret # None
                  /\ Top.node.op \notin BinOpNames) =>
               exc' = ValueError("Unsupported binary operator", Top.node.op)
          /\ (Running /\ Top.at = "operand" /\ ret # None
                  /\ Top.node.op \notin UnaryOpNames) =>
               exc' = ValueError("Unsupported unary operator", Top.node.op)
          /\ (Running /\ Top.at = "enter"
                  /\ Top.node.k \notin {"Expression", "Constant", "UnaryOp",
                                        "BinOp"}) =>
               exc' = ValueError("Unsupported expression", Top.node.k)]_vars

\* A missing operator over a failing operand has reported the operand.
C10_Witness ==
    /\ pc = "raised" /\ MissingOperator /\ ~OperandsEvaluate
    /\ parsed.body.op = "BitAnd"
    /\ exc = ValueError("Only numeric constants are allowed", "")

====
